---- MODULE Spec2Model ----
(***************************************************************************)
(* A model of the PDF indexing pipeline (extract_and_index.py) and of the  *)
(* graph-scoped retrieval engine (graph_rag.py).                           *)
(*                                                                         *)
(* Text is a sequence of one-character strings, so that the regular        *)
(* expressions, the slices and the JSON serialisation of the code act on   *)
(* characters as they do in Python.  blake2s is modelled as an injective   *)
(* function of the bytes it is given: a digest is represented by its       *)
(* preimage, the (truncated) serialised payload.                           *)
(*                                                                         *)
(* Intermediate values of a function of the program are passed on as       *)
(* operator parameters (FooWith..., FooFrom...) rather than named in LET.  *)
(***************************************************************************)
EXTENDS Integers, Sequences, FiniteSets, TLC

\* An optional value (Python's "x | None") is <<>> for None and <<x>> otherwise.
None == <<>>
Some(x) == <<x>>

Min(a, b) == IF a < b THEN a ELSE b

\* s[:n]
Take(s, n) == SubSeq(s, 1, Min(Len(s), n))

RECURSIVE Concat(_)
\* the concatenation of a sequence of sequences
Concat(ss) == IF ss = <<>> THEN <<>> ELSE Head(ss) \o Concat(Tail(ss))

RECURSIVE Join(_, _)
\* sep.join(ss)
Join(sep, ss) ==
    IF ss = <<>> THEN <<>>
    ELSE IF Len(ss) = 1 THEN ss[1]
    ELSE ss[1] \o sep \o Join(sep, Tail(ss))

RECURSIVE Filter(_, _)
\* the sequence s without the elements that are not in keep
Filter(s, keep) ==
    IF s = <<>> THEN <<>>
    ELSE (IF Head(s) \in keep THEN <<Head(s)>> ELSE <<>>) \o Filter(Tail(s), keep)

\* the first of two optional match results that is one
OrElse(a, b) == IF a # <<>> THEN a ELSE b

(***************************************************************************)
(* Characters                                                              *)
(***************************************************************************)
DigitChars == <<"0", "1", "2", "3", "4", "5", "6", "7", "8", "9">>
UpperChars == <<"A", "B", "C", "D", "E", "F", "G", "H", "I", "J", "K", "L", "M",
                "N", "O", "P", "Q", "R", "S", "T", "U", "V", "W", "X", "Y", "Z">>
LowerChars == <<"a", "b", "c", "d", "e", "f", "g", "h", "i", "j", "k", "l", "m",
                "n", "o", "p", "q", "r", "s", "t", "u", "v", "w", "x", "y", "z">>

IsDigit(c) == c \in {"0", "1", "2", "3", "4", "5", "6", "7", "8", "9"}
DigitVal(c) == (CHOOSE i \in 1..10 : DigitChars[i] = c) - 1
DigitChar(d) == DigitChars[d + 1]

\* the class \s of the re module, and the characters str.strip() removes
IsSpace(c) == c \in {" ", "\t", "\n", "\r", "\f"}

\* str.lower() of one character
LowerChar(c) ==
    IF \E i \in 1..26 : UpperChars[i] = c
    THEN LowerChars[CHOOSE i \in 1..26 : UpperChars[i] = c]
    ELSE c

\* str.lower()
Lower(s) == [i \in 1..Len(s) |-> LowerChar(s[i])]

RECURSIVE LStrip(_)
LStrip(s) == IF s # <<>> /\ IsSpace(Head(s)) THEN LStrip(Tail(s)) ELSE s

RECURSIVE RStrip(_)
RStrip(s) ==
    IF s # <<>> /\ IsSpace(s[Len(s)]) THEN RStrip(SubSeq(s, 1, Len(s) - 1)) ELSE s

\* str.strip()
Strip(s) == RStrip(LStrip(s))

RECURSIVE Dec(_)
\* str(n) of a natural number
Dec(n) == IF n < 10 THEN <<DigitChar(n)>> ELSE Dec(n \div 10) \o <<DigitChar(n % 10)>>

RECURSIVE DecVal(_)
\* int(s) of a sequence of digits
DecVal(s) ==
    IF s = <<>> THEN 0 ELSE 10 * DecVal(SubSeq(s, 1, Len(s) - 1)) + DigitVal(s[Len(s)])

\* the position of the first c in s, 0 when there is none
IndexOf(s, c) ==
    IF \E i \in 1..Len(s) : s[i] = c
    THEN CHOOSE i \in 1..Len(s) : s[i] = c /\ \A j \in 1..(i - 1) : s[j] # c
    ELSE 0

RECURSIVE DigitRun(_, _, _)
\* how many characters of s from position p on (1-based) are digits, at most n
DigitRun(s, p, n) ==
    IF n = 0 \/ p > Len(s) \/ ~IsDigit(s[p]) THEN 0 ELSE 1 + DigitRun(s, p + 1, n - 1)

RECURSIVE SpaceRun(_, _)
\* how many characters of s from position p on are white space
SpaceRun(s, p) == IF p > Len(s) \/ ~IsSpace(s[p]) THEN 0 ELSE 1 + SpaceRun(s, p + 1)

(***************************************************************************)
(* parse_money.  A float with at most two decimals is represented by its   *)
(* number of hundredths: 123.45 is 12345.                                  *)
(***************************************************************************)
RECURSIVE MoneyGroups(_, _)
\* (?:[, ][0-9]{3})* from position p: the position after the last group
MoneyGroups(s, p) ==
    IF p <= Len(s) /\ s[p] \in {",", " "} /\ DigitRun(s, p + 1, 3) = 3
    THEN MoneyGroups(s, p + 4)
    ELSE p

\* (?:\.[0-9]{2})? from position p: the position after it
MoneyFraction(s, p) ==
    IF p <= Len(s) /\ s[p] = "." /\ DigitRun(s, p + 1, 2) = 2 THEN p + 3 ELSE p

\* ([0-9]{1,3}(?:[, ][0-9]{3})*(?:\.[0-9]{2})?) from position q, where n
\* digits start: the span <<first, last>> of group 1, or <<>> when there is
\* no match.  Every quantifier is greedy and whatever follows it is
\* optional, so the first attempt of the backtracking matcher is the match.
MoneyGroupAt(s, q, n) ==
    IF n = 0 THEN <<>> ELSE <<q, MoneyFraction(s, MoneyGroups(s, q + n)) - 1>>

\* \s*(...) from position p: white space is not a digit, so \s* keeps it all
MoneyBody(s, p) == MoneyGroupAt(s, p + SpaceRun(s, p), DigitRun(s, p + SpaceRun(s, p), 3))

\* money_rx matched at position p: \$? is tried with the dollar sign first
MoneyMatchAt(s, p) ==
    OrElse(IF p <= Len(s) /\ s[p] = "$" THEN MoneyBody(s, p + 1) ELSE <<>>, MoneyBody(s, p))

RECURSIVE MoneySearchFrom(_, _)
\* money_rx.search: the match at the leftmost position that has one
MoneySearchFrom(s, p) ==
    IF p > Len(s) + 1 THEN <<>>
    ELSE OrElse(MoneyMatchAt(s, p), MoneySearchFrom(s, p + 1))

money_rx_search(s) == MoneySearchFrom(s, 1)

\* float(g) of a string of digits with at most one dot at position dot (0:
\* none), two digits after it: the number of hundredths
FloatWithDot(g, dot) ==
    IF dot = 0 THEN 100 * DecVal(g)
    ELSE 100 * DecVal(SubSeq(g, 1, dot - 1)) + DecVal(SubSeq(g, dot + 1, Len(g)))

\* float(m.group(1)) if m else None
MoneyOfMatch(t, m) ==
    IF m = <<>> THEN None
    ELSE Some(FloatWithDot(SubSeq(t, m[1], m[2]), IndexOf(SubSeq(t, m[1], m[2]), ".")))

\* s.replace(",", "").replace(" ", "")
StripSeparators(s) == Filter(s, {s[i] : i \in 1..Len(s)} \ {",", " "})

\* parse_money(s) after the separators are removed
ParseStripped(t) == MoneyOfMatch(t, money_rx_search(t))

\* parse_money(s): None, or Some(the amount in hundredths)
parse_money(s) == ParseStripped(StripSeparators(s))

(***************************************************************************)
(* json.dumps(payload, ensure_ascii=False, sort_keys=True) and make_id     *)
(***************************************************************************)
\* the characters of the string literals of the program
Str_DOC      == <<"D", "O", "C">>
Str_ENT      == <<"E", "N", "T">>
Str_PCH      == <<"P", "C", "H">>
Str_TBL      == <<"T", "B", "L">>
Str_LIT      == <<"L", "I", "T">>
Str_Vendor   == <<"V", "e", "n", "d", "o", "r">>
Str_vendor   == <<"v", "e", "n", "d", "o", "r">>
Str_client   == <<"c", "l", "i", "e", "n", "t">>
Str_PDF_DIR  == <<"d", "a", "t", "a", "/", "p", "d", "f", "s", "/">>
Str_Cell_Sep == <<" ", "|", " ">>
Str_Item_Sep == <<",", " ">>
Str_Key_Sep  == <<":", " ">>

\* json.dumps of one character of a str (of the control characters, the
\* texts of this model hold "\n" and "\t" only)
JsonChar(c) ==
    IF c = "\"" THEN <<"\\", "\"">>
    ELSE IF c = "\\" THEN <<"\\", "\\">>
    ELSE IF c = "\n" THEN <<"\\", "n">>
    ELSE IF c = "\t" THEN <<"\\", "t">>
    ELSE <<c>>

\* json.dumps of a str
JsonStr(s) ==
    <<"\"">> \o
    (IF \A i \in 1..Len(s) : s[i] \notin {"\"", "\\", "\n", "\t"} THEN s
     ELSE Concat([i \in 1..Len(s) |-> JsonChar(s[i])]))
    \o <<"\"">>

\* json.dumps of an int
JsonInt(n) == Dec(n)

\* json.dumps of a float given in hundredths: repr gives 5.0, 12.5, 12.05
JsonFloat(h) ==
    Dec(h \div 100) \o <<".">> \o
    (IF h % 10 = 0 THEN <<DigitChar((h % 100) \div 10)>>
     ELSE <<DigitChar((h % 100) \div 10), DigitChar(h % 10)>>)

\* json.dumps of a list whose items are already dumped
JsonList(items) == <<"[">> \o Join(Str_Item_Sep, items) \o <<"]">>

\* the keys of the payloads of the program, in sorted order, with their characters
PayloadKeys ==
    << [k |-> "c",    s |-> <<"c">>],
       [k |-> "desc", s |-> <<"d", "e", "s", "c">>],
       [k |-> "doc",  s |-> <<"d", "o", "c">>],
       [k |-> "ext",  s |-> <<"e", "x", "t">>],
       [k |-> "i",    s |-> <<"i">>],
       [k |-> "name", s |-> <<"n", "a", "m", "e">>],
       [k |-> "p",    s |-> <<"p">>],
       [k |-> "page", s |-> <<"p", "a", "g", "e">>],
       [k |-> "r",    s |-> <<"r">>],
       [k |-> "size", s |-> <<"s", "i", "z", "e">>],
       [k |-> "t",    s |-> <<"t">>],
       [k |-> "type", s |-> <<"t", "y", "p", "e">>] >>

\* the item "key": value of a dict for one key of the sorted order, if it has it
JsonItem(payload, key) ==
    IF key.k \in DOMAIN payload
    THEN <<JsonStr(key.s) \o Str_Key_Sep \o payload[key.k]>>
    ELSE <<>>

\* json.dumps(payload, sort_keys=True) of a dict whose values are already dumped
JsonDict(payload) ==
    <<"{">> \o
    Join(Str_Item_Sep, Concat([i \in 1..Len(PayloadKeys) |-> JsonItem(payload, PayloadKeys[i])]))
    \o <<"}">>

\* the cap of make_id on the serialised payload
IdCap == 2048

\* make_id(prefix, payload) for a dict payload.  The digest is injective in
\* the bytes hashed, so the ID is represented by its prefix and those bytes.
make_id(prefix, payload) == [prefix |-> prefix, h |-> Take(JsonDict(payload), IdCap)]

\* blake2s(...).hexdigest() of the payloads whose ID is written into another
\* payload (the "doc" field): the digests of the DOC payloads of PdfNames
Blake2sHex ==
    { [pre |-> <<"{", "\"", "n", "a", "m", "e", "\"", ":", " ", "\"", "a", ".", "p", "d", "f", "\"", ",", " ", "\"", "s", "i", "z", "e", "\"", ":", " ", "7", "}">>,
       hex |-> <<"c", "c", "c", "9", "4", "1", "d", "a", "6", "5", "9", "d", "a", "9", "5", "7">>],
      [pre |-> <<"{", "\"", "n", "a", "m", "e", "\"", ":", " ", "\"", "b", ".", "p", "d", "f", "\"", ",", " ", "\"", "s", "i", "z", "e", "\"", ":", " ", "7", "}">>,
       hex |-> <<"0", "0", "1", "6", "e", "d", "d", "b", "b", "5", "5", "2", "8", "9", "f", "4">>] }

\* f"{prefix}:{h}", the ID as the str the program holds
IdStr(id) == id.prefix \o <<":">> \o (CHOOSE d \in Blake2sHex : d.pre = id.h).hex

(***************************************************************************)
(* networkx.DiGraph: node |-> attributes, <<u, v>> |-> attributes          *)
(***************************************************************************)
NoAttrs == [k \in {} |-> None]

EmptyGraph == [node |-> [n \in {} |-> NoAttrs], edge |-> [e \in {} |-> NoAttrs]]

\* dict.update: the entries of new, and those of old under other keys
Update(old, new) == new @@ old

\* d with the entry of key k updated by attrs, or set to them
Upsert(d, k, attrs) ==
    IF k \in DOMAIN d THEN [d EXCEPT ![k] = Update(@, attrs)] ELSE (k :> attrs) @@ d

\* g.add_node(n, **attrs)
add_node(g, n, attrs) == [g EXCEPT !.node = Upsert(@, n, attrs)]

\* g.add_edge(u, v, **attrs): the end points are added when they are missing
add_edge(g, u, v, attrs) ==
    [node |-> [n \in {u, v} \ DOMAIN g.node |-> NoAttrs] @@ g.node,
     edge |-> Upsert(g.edge, <<u, v>>, attrs)]

\* the entries of two dicts, those of h updating those of g
Merged(g, h) ==
    [n \in DOMAIN g \cup DOMAIN h |->
        IF n \notin DOMAIN h THEN g[n]
        ELSE IF n \notin DOMAIN g THEN h[n]
        ELSE Update(g[n], h[n])]

\* a faulty merge, "G = g": the fragment replaces the corpus graph
Replace(g, h) == h

\* nx.compose(G, H): the nodes and edges of both, H's attributes taking precedence
compose(g, h) == [node |-> Merged(g.node, h.node), edge |-> Merged(g.edge, h.edge)]

(***************************************************************************)
(* The chunkers.  A PDF is what the extractors return for it:              *)
(*   name, size      the file name and st_size                             *)
(*   textract        [raises, isstr, val]: Textractor raises, or returns   *)
(*                   one str (isstr) or a list of str                      *)
(*   plumber         [open_fails, pages]; a page is [raises, tables],      *)
(*                   tables being None or a list of tables; a table is a   *)
(*                   list of rows and a row a list of cells, each None or  *)
(*                   Some(str)                                             *)
(***************************************************************************)
ParagraphCap == 300
CellCap == 10
DescCap == 200
VendorCap == 120

\* str(pdfpath)
PathOf(pdf) == Str_PDF_DIR \o pdf.name

\* the chunk that paragraph_chunks yields for the i-th text (from 0)
ParagraphChunk(pdf, doc_str, i, text) ==
    [id      |-> make_id(Str_PCH, [doc |-> JsonStr(doc_str),
                                   i   |-> JsonInt(i),
                                   t   |-> JsonStr(Take(text, ParagraphCap))]),
     text    |-> text,
     docname |-> pdf.name,
     source  |-> PathOf(pdf),
     type    |-> "paragraph"]

\* the chunks that paragraph_chunks yields for the list chunks
ParagraphChunksOf(pdf, doc_str, chunks) ==
    [i \in 1..Len(chunks) |-> ParagraphChunk(pdf, doc_str, i - 1, chunks[i])]

\* list(paragraph_chunks(pdfpath, doc_id)): one str is a list of one
paragraph_chunks(pdf, doc_id) ==
    ParagraphChunksOf(pdf, IdStr(doc_id),
                      IF pdf.textract.isstr THEN <<pdf.textract.val>> ELSE pdf.textract.val)

\* [(c or "").strip() for c in row]
CellsOf(row) == [j \in 1..Len(row) |-> Strip(IF row[j] = None THEN <<>> ELSE row[j][1])]

\* what table_rows yields for the row r_i (from 0) of a table, given its cells
RowChunk(pdf, doc_str, page_index, r_i, cells) ==
    IF \A j \in 1..Len(cells) : cells[j] = <<>>
    THEN <<>>
    ELSE << [id      |-> make_id(Str_TBL,
                            [doc |-> JsonStr(doc_str),
                             p   |-> JsonInt(page_index),
                             r   |-> JsonInt(r_i),
                             c   |-> JsonList([j \in 1..Min(Len(cells), CellCap) |->
                                                  JsonStr(cells[j])])]),
             text    |-> Join(Str_Cell_Sep, cells),
             docname |-> pdf.name,
             source  |-> PathOf(pdf),
             type    |-> "table-row",
             page    |-> page_index] >>

\* what the loop over the rows of one table yields
RowsOfTable(pdf, doc_str, page_index, table) ==
    Concat([r \in 1..Len(table) |-> RowChunk(pdf, doc_str, page_index, r - 1, CellsOf(table[r]))])

\* what the loop over the tables of one page yields
RowsOfTables(pdf, doc_str, page_index, tables) ==
    Concat([t \in 1..Len(tables) |-> RowsOfTable(pdf, doc_str, page_index, tables[t])])

\* page.extract_tables() or []
TablesOf(page) == IF page.tables = None THEN <<>> ELSE page.tables[1]

RECURSIVE RowsFromPage(_, _, _)
\* what the generator yields from page page_index on: an exception ends the
\* generator, and what it has yielded before stays yielded
RowsFromPage(pdf, doc_str, page_index) ==
    IF page_index > Len(pdf.plumber.pages) THEN <<>>
    ELSE IF pdf.plumber.pages[page_index].raises THEN <<>>
    ELSE RowsOfTables(pdf, doc_str, page_index, TablesOf(pdf.plumber.pages[page_index]))
         \o RowsFromPage(pdf, doc_str, page_index + 1)

\* list(table_rows(pdfpath, doc_id))
table_rows(pdf, doc_id) ==
    IF pdf.plumber.open_fails THEN <<>> ELSE RowsFromPage(pdf, IdStr(doc_id), 1)

(***************************************************************************)
(* sniff_vendor                                                            *)
(***************************************************************************)
RECURSIVE LineEnd(_, _)
\* the end of the line that position p is on: `.' matches all but "\n"
LineEnd(text, p) ==
    IF p > Len(text) \/ text[p] = "\n" THEN p - 1 ELSE LineEnd(text, p + 1)

\* the greatest element of a set of numbers
Max(S) == CHOOSE x \in S : \A y \in S : y <= x

\* \s*(.+) from position q3: the span of group 1, or <<>>.  \s* gives back
\* white space until a character other than "\n" follows it; js are the
\* numbers of white-space characters it can keep.
VendorGroupAt(text, q3, js) ==
    IF js = {} THEN <<>> ELSE <<q3 + Max(js), LineEnd(text, q3 + Max(js))>>

\* \s*[:\-]\s*(.+) from position q, with q2 the position after the first \s*
VendorTailAt(text, q2) ==
    IF q2 <= Len(text) /\ text[q2] \in {":", "-"}
    THEN VendorGroupAt(text, q2 + 1,
                       {j \in 0..SpaceRun(text, q2 + 1) :
                           q2 + 1 + j <= Len(text) /\ text[q2 + 1 + j] # "\n"})
    ELSE <<>>

\* <label>\s*[:\-]\s*(.+) with IGNORECASE matched at position p
LabelMatchAt(text, p, label) ==
    IF /\ p + Len(label) - 1 <= Len(text)
       /\ Lower(SubSeq(text, p, p + Len(label) - 1)) = label
    THEN VendorTailAt(text, p + Len(label) + SpaceRun(text, p + Len(label)))
    ELSE <<>>

RECURSIVE LabelSearchFrom(_, _, _)
\* re.search of that pattern: the match at the leftmost position that has one
LabelSearchFrom(text, p, label) ==
    IF p > Len(text) THEN <<>>
    ELSE OrElse(LabelMatchAt(text, p, label), LabelSearchFrom(text, p + 1, label))

\* m.group(1).strip()[:120]
VendorOfMatch(text, m) == Take(Strip(SubSeq(text, m[1], m[2])), VendorCap)

\* the loop of sniff_vendor over its patterns, m1 and m2 being their matches
SniffOf(text, m1, m2) ==
    IF m1 # <<>> THEN Some(VendorOfMatch(text, m1))
    ELSE IF m2 # <<>> THEN Some(VendorOfMatch(text, m2))
    ELSE None

\* sniff_vendor(text): None or Some(name)
sniff_vendor(text) ==
    SniffOf(text, LabelSearchFrom(text, 1, Str_vendor), LabelSearchFrom(text, 1, Str_client))

(***************************************************************************)
(* sniff_grand_total.  The float is represented by its integer part and    *)
(* the digits of its fraction without trailing zeros.                      *)
(***************************************************************************)
GrandWindow == 40

Str_grand_total    == <<"g", "r", "a", "n", "d", " ", "t", "o", "t", "a", "l">>
Str_contract_total == <<"c", "o", "n", "t", "r", "a", "c", "t", " ", "t", "o", "t", "a", "l">>
Str_total          == <<"t", "o", "t", "a", "l">>

RECURSIVE AmountRun(_, _)
\* how many characters of text from position p on are in [0-9,\. ]
AmountRun(text, p) ==
    IF p > Len(text) \/ ~(IsDigit(text[p]) \/ text[p] \in {",", ".", " "}) THEN 0
    ELSE 1 + AmountRun(text, p + 1)

\* ([0-9][0-9,\. ]+) at position y2: the span of group 1, or <<>>
TotalGroupAt(text, y2) ==
    IF y2 <= Len(text) /\ IsDigit(text[y2]) /\ AmountRun(text, y2 + 1) >= 1
    THEN <<y2, y2 + AmountRun(text, y2 + 1)>>
    ELSE <<>>

\* \s*([0-9][0-9,\. ]+) from position y
TotalBody(text, y) == TotalGroupAt(text, y + SpaceRun(text, y))

\* \$?\s*([0-9][0-9,\. ]+) matched at position p
TotalTailAt(text, p) ==
    OrElse(IF p <= Len(text) /\ text[p] = "$" THEN TotalBody(text, p + 1) ELSE <<>>,
           TotalBody(text, p))

\* .{0,40}\$?\s*([0-9][0-9,\. ]+) from position q: .{0,40} takes as many
\* characters of the line as leave a match; ks are the numbers it can take
TotalWindowAt(text, q, ks) == IF ks = {} THEN <<>> ELSE TotalTailAt(text, q + Max(ks))

\* the pattern of sniff_grand_total for a label, matched at position p
TotalMatchAt(text, p, label) ==
    IF /\ p + Len(label) - 1 <= Len(text)
       /\ Lower(SubSeq(text, p, p + Len(label) - 1)) = label
    THEN TotalWindowAt(text, p + Len(label),
                       {k \in 0..Min(GrandWindow, LineEnd(text, p + Len(label)) + 1
                                                  - (p + Len(label))) :
                           TotalTailAt(text, p + Len(label) + k) # <<>>})
    ELSE <<>>

RECURSIVE TotalSearchFrom(_, _, _)
TotalSearchFrom(text, p, label) ==
    IF p > Len(text) THEN <<>>
    ELSE OrElse(TotalMatchAt(text, p, label), TotalSearchFrom(text, p + 1, label))

RECURSIVE DropTrailingZeros(_)
DropTrailingZeros(s) ==
    IF s # <<>> /\ s[Len(s)] = "0" THEN DropTrailingZeros(SubSeq(s, 1, Len(s) - 1)) ELSE s

\* float(s) of a string of digits and dots that starts with a digit: None
\* when float raises ValueError (more than one dot)
DigitsFloat(s) ==
    IF Cardinality({i \in 1..Len(s) : s[i] = "."}) > 1 THEN None
    ELSE IF IndexOf(s, ".") = 0 THEN Some([int |-> DecVal(s), frac |-> <<>>])
    ELSE Some([int  |-> DecVal(SubSeq(s, 1, IndexOf(s, ".") - 1)),
               frac |-> DropTrailingZeros(SubSeq(s, IndexOf(s, ".") + 1, Len(s)))])

\* float(m.group(1).replace(",", "").replace(" ", "")), None when there is
\* no match or float raises
TotalOfMatch(fulltext, m) ==
    IF m = <<>> THEN None ELSE DigitsFloat(StripSeparators(SubSeq(fulltext, m[1], m[2])))

RECURSIVE GrandTotalFrom(_, _)
\* the loop of sniff_grand_total over its labels
GrandTotalFrom(fulltext, labels) ==
    IF labels = <<>> THEN None
    ELSE OrElse(TotalOfMatch(fulltext, TotalSearchFrom(fulltext, 1, Head(labels))),
                GrandTotalFrom(fulltext, Tail(labels)))

\* sniff_grand_total(fulltext): None or Some(amount)
sniff_grand_total(fulltext) ==
    GrandTotalFrom(fulltext, <<Str_grand_total, Str_contract_total, Str_total>>)

(***************************************************************************)
(* build_graph_and_maps                                                    *)
(***************************************************************************)
RECURSIVE Split(_, _)
\* s.split(sep) for a one-character sep
Split(s, sep) ==
    IF IndexOf(s, sep) = 0 THEN <<s>>
    ELSE <<SubSeq(s, 1, IndexOf(s, sep) - 1)>> \o Split(SubSeq(s, IndexOf(s, sep) + 1, Len(s)), sep)

\* [p.strip() for p in text.split("|")]
PartsOf(text) == [i \in 1..Len(Split(text, "|")) |-> Strip(Split(text, "|")[i])]

\* parse_money(parts[-1]) if len(parts) >= 2 else None
ExtCostOf(parts) == IF Len(parts) >= 2 THEN parse_money(parts[Len(parts)]) ELSE None

\* " | ".join(parts[:-1])[:200]
DescOf(parts) == Take(Join(Str_Cell_Sep, SubSeq(parts, 1, Len(parts) - 1)), DescCap)

\* the Chunk node of a chunk and its HAS_CHUNK edge
AddChunk(g, attrs, doc_id, cid) ==
    add_edge(add_node(g, cid, attrs), doc_id, cid, [rel |-> "HAS_CHUNK"])

\* the edge to the Entity node, when there is one
AddEntityEdge(g, n, ent_id, rel) ==
    IF ent_id # None THEN add_edge(g, n, ent_id[1], [rel |-> rel]) ELSE g

\* the LineItem node lid of the row chunk rc, with its edges
AddLineItem(g, rc, lid, ext_cost, desc, ent_id) ==
    AddEntityEdge(add_edge(add_node(g, lid, [label |-> "LineItem", ext_cost |-> ext_cost,
                                             page |-> rc.page, desc |-> desc]),
                           rc.id, lid, [rel |-> "HAS_LINEITEM"]),
                  lid, ent_id, "ITEM_FOR")

\* the part of the loop body that follows the parsing of the last cell
AddRowWith(g, line_items, rc, doc_str, ent_id, ext_cost, desc) ==
    IF ext_cost = None THEN [g |-> g, line_items |-> line_items]
    ELSE [g          |-> AddLineItem(g, rc,
                                     make_id(Str_LIT, [doc  |-> JsonStr(doc_str),
                                                       page |-> JsonInt(rc.page),
                                                       desc |-> JsonStr(desc),
                                                       ext  |-> JsonFloat(ext_cost[1])]),
                                     ext_cost[1], desc, ent_id),
          line_items |-> Append(line_items,
                                [desc |-> desc, qty |-> None, unit |-> None,
                                 unit_cost |-> None, ext_cost |-> ext_cost,
                                 page |-> Some(rc.page)])]

\* the body of the loop over row_chunks for the row chunk rc: the graph and
\* the line items after it
AddRow(g, line_items, rc, doc_id, ent_id) ==
    AddRowWith(AddChunk(g, [label |-> "Chunk", type |-> rc.type, page |-> rc.page,
                            docname |-> rc.docname], doc_id, rc.id),
               line_items, rc, IdStr(doc_id), ent_id,
               ExtCostOf(PartsOf(rc.text)), DescOf(PartsOf(rc.text)))

RECURSIVE AddRowsFrom(_, _, _, _, _)
\* the loop over row_chunks from the i-th on, acc being [g, line_items] before it
AddRowsFrom(acc, row_chunks, i, doc_id, ent_id) ==
    IF i > Len(row_chunks) THEN acc
    ELSE AddRowsFrom(AddRow(acc.g, acc.line_items, row_chunks[i], doc_id, ent_id),
                     row_chunks, i + 1, doc_id, ent_id)

\* the body of the loop over pchunks for the paragraph chunk pc
AddParagraph(g, pc, doc_id, ent_id) ==
    AddEntityEdge(AddChunk(g, [label |-> "Chunk", type |-> pc.type, docname |-> pc.docname],
                           doc_id, pc.id),
                  pc.id, ent_id, "MENTIONS")

RECURSIVE AddParagraphsFrom(_, _, _, _, _)
\* the loop over pchunks from the i-th on
AddParagraphsFrom(g, pchunks, i, doc_id, ent_id) ==
    IF i > Len(pchunks) THEN g
    ELSE AddParagraphsFrom(AddParagraph(g, pchunks[i], doc_id, ent_id), pchunks, i + 1,
                           doc_id, ent_id)

\* the ID of the Document node of a PDF
DocId(pdf) == make_id(Str_DOC, [name |-> JsonStr(pdf.name), size |-> JsonInt(pdf.size)])

\* the ID of the Entity node of a vendor name
EntId(vendor) == make_id(Str_ENT, [type |-> JsonStr(Str_Vendor), name |-> JsonStr(vendor)])

\* the graph with the Document node, and the Entity node "if vendor:"
EntityGraph(pdf, doc_id, vendor) ==
    IF vendor # None /\ vendor[1] # <<>>
    THEN add_edge(add_node(add_node(EmptyGraph, doc_id,
                                    [label |-> "Document", docname |-> pdf.name,
                                     path |-> PathOf(pdf)]),
                           EntId(vendor[1]),
                           [label |-> "Entity", type |-> "Vendor", name |-> vendor[1]]),
                  doc_id, EntId(vendor[1]), [rel |-> "HAS_ENTITY"])
    ELSE add_node(EmptyGraph, doc_id,
                  [label |-> "Document", docname |-> pdf.name, path |-> PathOf(pdf)])

\* ent_id: None, or Some(the ID of the Entity node)
EntIdOf(vendor) == IF vendor # None /\ vendor[1] # <<>> THEN Some(EntId(vendor[1])) ELSE None

\* what build_graph_and_maps returns, rows being [g, line_items] after the
\* loop over row_chunks
BuildResult(pdf, doc_id, pchunks, vendor, gt, ent_id, row_chunks, rows) ==
    [g          |-> AddParagraphsFrom(rows.g, pchunks, 1, doc_id, ent_id),
     docmap     |-> [doc_id |-> doc_id, docname |-> pdf.name, vendor |-> vendor,
                     grand_total |-> gt, items |-> rows.line_items],
     all_chunks |-> row_chunks \o pchunks]

\* build_graph_and_maps from the table rows on
BuildWithRows(pdf, doc_id, pchunks, vendor, gt, ent_id, row_chunks) ==
    BuildResult(pdf, doc_id, pchunks, vendor, gt, ent_id, row_chunks,
                AddRowsFrom([g |-> EntityGraph(pdf, doc_id, vendor), line_items |-> <<>>],
                            row_chunks, 1, doc_id, ent_id))

\* build_graph_and_maps from the sniffing on
BuildWithVendor(pdf, doc_id, pchunks, vendor, gt) ==
    BuildWithRows(pdf, doc_id, pchunks, vendor, gt, EntIdOf(vendor), table_rows(pdf, doc_id))

\* "\n".join(ch["text"] for ch in pchunks)
FullText(pchunks) == Join(<<"\n">>, [i \in 1..Len(pchunks) |-> pchunks[i].text])

\* build_graph_and_maps from the paragraph chunks on
BuildWithParagraphs(pdf, doc_id, pchunks) ==
    BuildWithVendor(pdf, doc_id, pchunks, sniff_vendor(FullText(pchunks)),
                    sniff_grand_total(FullText(pchunks)))

\* build_graph_and_maps(pdf): [g, docmap, all_chunks], for a PDF that
\* Textractor reads
build_graph_and_maps(pdf) == BuildWithParagraphs(pdf, DocId(pdf), paragraph_chunks(pdf, DocId(pdf)))

(***************************************************************************)
(* Persistence: json_graph.node_link_data / node_link_graph.  The lists of *)
(* the JSON document are in the order networkx iterates, which no          *)
(* operation of the program depends on; here it is a fixed order.          *)
(***************************************************************************)
RECURSIVE SetToSeq(_)
SetToSeq(S) ==
    IF S = {} THEN <<>>
    ELSE <<CHOOSE y \in S : TRUE>> \o SetToSeq(S \ {CHOOSE y \in S : TRUE})

\* the record d without the keys ks
Without(d, ks) == [k \in DOMAIN d \ ks |-> d[k]]

\* the node list and the link list of node_link_data
NodeLinkLists(g, ns, es) ==
    [directed   |-> TRUE,
     multigraph |-> FALSE,
     nodes      |-> [i \in 1..Len(ns) |-> g.node[ns[i]] @@ [id |-> ns[i]]],
     links      |-> [i \in 1..Len(es) |->
                        g.edge[es[i]] @@ [source |-> es[i][1], target |-> es[i][2]]]]

\* json_graph.node_link_data(G)
node_link_data(g) == NodeLinkLists(g, SetToSeq(DOMAIN g.node), SetToSeq(DOMAIN g.edge))

RECURSIVE LoadNodes(_, _, _)
LoadNodes(g, nodes, i) ==
    IF i > Len(nodes) THEN g
    ELSE LoadNodes(add_node(g, nodes[i].id, Without(nodes[i], {"id"})), nodes, i + 1)

RECURSIVE LoadLinks(_, _, _)
LoadLinks(g, links, i) ==
    IF i > Len(links) THEN g
    ELSE LoadLinks(add_edge(g, links[i].source, links[i].target,
                            Without(links[i], {"source", "target"})), links, i + 1)

\* json_graph.node_link_graph(data)
node_link_graph(data) == LoadLinks(LoadNodes(EmptyGraph, data.nodes, 1), data.links, 1)

\* the last chunk of the ID cid in chunks
LastOf(chunks, cid) ==
    chunks[CHOOSE i \in 1..Len(chunks) :
              chunks[i].id = cid /\ \A j \in (i + 1)..Len(chunks) : chunks[j].id # cid]

\* {c["id"]: c for c in chunks}: a later chunk replaces an earlier one of its ID
DictOfChunks(chunks) ==
    [cid \in {chunks[i].id : i \in 1..Len(chunks)} |-> LastOf(chunks, cid)]

\* the meta that stream() yields with the ID of a chunk
StreamMeta(chunk) == Without(chunk, {"id"})

\* emb.index(stream()): the content of the index, id |-> meta
IndexOfChunks(chunks) ==
    [cid \in {chunks[i].id : i \in 1..Len(chunks)} |-> StreamMeta(LastOf(chunks, cid))]

(***************************************************************************)
(* Retrieval: cids_for_entity, top_context                                 *)
(***************************************************************************)
\* whether node n has this label
HasLabel(g, n, label) == "label" \in DOMAIN g.node[n] /\ g.node[n].label = label

\* str(d.get("name", ""))
NameOf(g, n) == IF "name" \in DOMAIN g.node[n] THEN g.node[n].name ELSE <<>>

\* a faulty cids_for_entity that looks at G.in_edges only
ChunksInto(g, targets) ==
    {e[1] : e \in {x \in DOMAIN g.edge : x[2] \in targets /\ HasLabel(g, x[1], "Chunk")}}

\* the chunks with an edge to or from one of the nodes targets
ChunksAround(g, targets) ==
    {e[1] : e \in {x \in DOMAIN g.edge : x[2] \in targets /\ HasLabel(g, x[1], "Chunk")}}
    \cup
    {e[2] : e \in {x \in DOMAIN g.edge : x[1] \in targets /\ HasLabel(g, x[2], "Chunk")}}

\* cids_for_entity(G, entity_name)
cids_for_entity(g, entity_name) ==
    ChunksAround(g, {n \in DOMAIN g.node :
                        HasLabel(g, n, "Entity") /\ Lower(NameOf(g, n)) = Lower(entity_name)})

\* the size of the context and the number of hits asked of the index
ContextSize == 12
SearchLimit == 60

\* whether the loop of top_context appends the text of the hit of this ID
Accepts(cid, chunk_map, scope_cids) ==
    /\ ~(scope_cids # None /\ scope_cids[1] # {} /\ cid \notin scope_cids[1])
    /\ cid \in DOMAIN chunk_map
    /\ chunk_map[cid] # NoAttrs

RECURSIVE TopCidsLate(_, _, _, _, _, _)
\* a faulty loop that tests len(texts) > k
TopCidsLate(hits, i, chunk_map, scope_cids, k, n) ==
    IF i > Len(hits) THEN <<>>
    ELSE IF ~Accepts(hits[i].id, chunk_map, scope_cids)
    THEN TopCidsLate(hits, i + 1, chunk_map, scope_cids, k, n)
    ELSE IF n + 1 > k THEN <<hits[i].id>>
    ELSE <<hits[i].id>> \o TopCidsLate(hits, i + 1, chunk_map, scope_cids, k, n + 1)

RECURSIVE TopCids(_, _, _, _, _, _)
\* the loop of top_context over the hits from the i-th on, n texts being
\* collected already: the IDs of the hits whose text it appends
TopCids(hits, i, chunk_map, scope_cids, k, n) ==
    IF i > Len(hits) THEN <<>>
    ELSE IF ~Accepts(hits[i].id, chunk_map, scope_cids)
    THEN TopCids(hits, i + 1, chunk_map, scope_cids, k, n)
    ELSE IF n + 1 >= k THEN <<hits[i].id>>
    ELSE <<hits[i].id>> \o TopCids(hits, i + 1, chunk_map, scope_cids, k, n + 1)

\* the IDs of the hits that top_context takes its texts from
top_context_cids(hits, chunk_map, scope_cids, k) == TopCids(hits, 1, chunk_map, scope_cids, k, 0)

\* the texts of these chunks
TextsOf(chunk_map, cids) == [i \in 1..Len(cids) |-> chunk_map[cids[i]].text]

\* top_context(emb, chunk_map, question, scope_cids, k), hits being what
\* emb.search(question, limit=60) returns
top_context(hits, chunk_map, scope_cids, k) ==
    TextsOf(chunk_map, top_context_cids(hits, chunk_map, scope_cids, k))

\* the scope that ask computes: the loop over entities, "if entities:"
ScopeOf(g, entities) ==
    IF entities = None THEN {}
    ELSE UNION {cids_for_entity(g, entities[1][i]) : i \in 1..Len(entities[1])}

\* "scope or None"
OrNone(scope) == IF scope = {} THEN None ELSE Some(scope)

(***************************************************************************)
(* The inputs: the PDFs that data/pdfs can hold                            *)
(***************************************************************************)
MaxParas == 2
MaxRows == 2
MaxPages == 2

\* the file names, in the order of sorted(PDF_DIR.glob("*.pdf")), and the
\* st_size of the files (Blake2sHex has the digests for these)
PdfNames == <<<<"a", ".", "p", "d", "f">>, <<"b", ".", "p", "d", "f">>>>
PdfSizes == {7}

T_ACME == <<"V", "e", "n", "d", "o", "r", ":", " ", "A", "C", "M", "E">>
T_Acme == <<"V", "e", "n", "d", "o", "r", ":", " ", "A", "c", "m", "e">>
T_Note == <<"T", "o", "t", "a", "l", ":", " ", "$", "1", ",", "2", "5", "0", ".", "5", " ">>
ParaTexts == {T_ACME, T_Acme}

\* the sequences of at most n elements of S
SeqsUpTo(S, n) == UNION {[1..m -> S] : m \in 0..n}

\* what Textractor can do: raise, return one str, return a list of str
TextractResults ==
    {[raises |-> TRUE, isstr |-> FALSE, val |-> <<>>],
     [raises |-> FALSE, isstr |-> TRUE, val |-> T_ACME]}
    \cup {[raises |-> FALSE, isstr |-> FALSE, val |-> v] : v \in SeqsUpTo(ParaTexts, MaxParas)}

\* what it can do for the one PDF whose tables vary
TableTextractResults ==
    {[raises |-> TRUE, isstr |-> FALSE, val |-> <<>>],
     [raises |-> FALSE, isstr |-> TRUE, val |-> T_ACME],
     [raises |-> FALSE, isstr |-> FALSE, val |-> <<>>],
     [raises |-> FALSE, isstr |-> FALSE, val |-> <<T_Note>>]}

C_Bolt == Some(<<"B", "o", "l", "t">>)
C_5 == Some(<<"$", "5">>)
C_Blank == Some(<<" ">>)
\* a cell whose serialisation alone fills the cap of make_id
C_Long == Some([i \in 1..IdCap |-> "x"])

R_Money == <<C_Bolt, C_5>>
R_Blank == <<None, C_Blank>>
R_Plain == <<C_Bolt>>
R_Long == <<C_Long>>

Page(tables) == [raises |-> FALSE, tables |-> tables]
RaisingPage == [raises |-> TRUE, tables |-> None]
Plumber(pages) == [open_fails |-> FALSE, pages |-> pages]
FailingPlumber == [open_fails |-> TRUE, pages |-> <<>>]

\* what pdfplumber returns for the PDFs of a corpus
CorpusPlumbers ==
    {Plumber(<<>>),
     Plumber(<<Page(Some(<<<<R_Money, R_Money>>>>))>>),
     Plumber(<<Page(Some(<<<<R_Long, R_Money>>>>))>>)}

\* what pdfplumber returns for one PDF: pages of at most one table
TablePages ==
    {RaisingPage, Page(None)}
    \cup {Page(Some(<<t>>)) : t \in SeqsUpTo({R_Money, R_Blank, R_Plain}, MaxRows)}
    \cup {Page(Some(<<<<R_Money>>, <<R_Money>>>>))}

TablePlumbers == {FailingPlumber} \cup {Plumber(ps) : ps \in SeqsUpTo(TablePages, MaxPages)}

Pdf(name, size, t, p) == [name |-> name, size |-> size, textract |-> t, plumber |-> p]

\* for one file name: no file (None), or what the extractors return for the file
Files(textracts, plumbers) ==
    {None} \cup {Some([size |-> z, textract |-> t, plumber |-> p]) :
                    z \in PdfSizes, t \in textracts, p \in plumbers}

RECURSIVE Listing(_, _)
\* the directory listing for a choice sel of files, from the i-th name on
Listing(sel, i) ==
    IF i > Len(PdfNames) THEN <<>>
    ELSE (IF sel[i] = None THEN <<>>
          ELSE <<Pdf(PdfNames[i], sel[i][1].size, sel[i][1].textract, sel[i][1].plumber)>>)
         \o Listing(sel, i + 1)

\* the directory listings: for each file name, no file or a file
Listings(files) == {Listing(sel, 1) : sel \in [1..Len(PdfNames) -> files]}

N_ACME == <<"A", "C", "M", "E">>
N_acme == <<"a", "c", "m", "e">>
N_Zed == <<"Z", "e", "d">>

\* the entities arguments of ask
EntityArgs == {None, Some(<<>>), Some(<<N_ACME>>), Some(<<N_Zed>>), Some(<<N_acme, N_Zed>>)}

(***************************************************************************)
(* The state                                                               *)
(***************************************************************************)
VARIABLES
    pc,                    \* where the program is: see the actions
    pdfs,                  \* sorted(PDF_DIR.glob("*.pdf")), with what the extractors return
    done,                  \* how many PDFs the loop of __main__ has processed
    G,                     \* the corpus graph of __main__
    docmaps,               \* docmaps of __main__
    all_chunks_for_index,  \* all_chunks_for_index of __main__
    graph_json,            \* data/graph.json
    mapped_json,           \* data/mapped.json
    chunk_map_json,        \* data/hashmaps/chunk_map.json
    index,                 \* the saved semantic index: id |-> meta
    entities,              \* the entities argument of the last ask
    hits,                  \* what emb.search returned in the last top_context
    scope,                 \* scope of the last ask
    scope_cids,            \* the scope_cids argument of the last top_context
    k,                     \* the k argument of the last top_context
    ctx,                   \* what the last top_context returned
    s,                     \* the argument of parse_money
    money                  \* what parse_money returned

vars == <<pc, pdfs, done, G, docmaps, all_chunks_for_index, graph_json, mapped_json,
          chunk_map_json, index, entities, hits, scope, scope_cids, k, ctx, s, money>>

NoFile == <<>>

\* no ask, no top_context and no parse_money has been called
NoCalls ==
    /\ entities = None
    /\ hits = <<>>
    /\ scope = {}
    /\ scope_cids = None
    /\ k = ContextSize
    /\ ctx = <<>>
    /\ s = <<>>
    /\ money = None

\* the start of __main__ of extract_and_index.py on a directory
InitWith(listings) ==
    /\ pc = "index"
    /\ pdfs \in listings
    /\ done = 0
    /\ G = EmptyGraph
    /\ docmaps = <<>>
    /\ all_chunks_for_index = <<>>
    /\ graph_json = NoFile
    /\ mapped_json = NoFile
    /\ chunk_map_json = NoFile
    /\ index = NoFile
    /\ NoCalls

\* a corpus of at most Len(PdfNames) PDFs
Init == InitWith(Listings(Files(TextractResults, CorpusPlumbers)))

\* one PDF, with any tables
InitTables ==
    InitWith({<<Pdf(PdfNames[1], z, t, p)>> :
                 z \in PdfSizes,
                 t \in TableTextractResults,
                 p \in TablePlumbers})

(***************************************************************************)
(* __main__ of extract_and_index.py                                        *)
(***************************************************************************)
\* the assignments of one iteration, b being what build_graph_and_maps returned
ProcessWith(b) ==
    /\ G' = compose(G, b.g)
    /\ docmaps' = Append(docmaps, b.docmap)
    /\ all_chunks_for_index' = all_chunks_for_index \o b.all_chunks

\* one iteration of the loop over the PDFs
ProcessPdf ==
    /\ pc = "index"
    /\ done < Len(pdfs)
    /\ ~pdfs[done + 1].textract.raises
    /\ ProcessWith(build_graph_and_maps(pdfs[done + 1]))
    /\ done' = done + 1
    /\ UNCHANGED <<pc, pdfs, graph_json, mapped_json, chunk_map_json, index, entities, hits,
                   scope, scope_cids, k, ctx, s, money>>

\* Textractor raises in paragraph_chunks: nothing catches it, the run ends
Crash ==
    /\ pc = "index"
    /\ done < Len(pdfs)
    /\ pdfs[done + 1].textract.raises
    /\ pc' = "crashed"
    /\ UNCHANGED <<pdfs, done, G, docmaps, all_chunks_for_index, graph_json, mapped_json,
                   chunk_map_json, index, entities, hits, scope, scope_cids, k, ctx, s, money>>

\* after the loop: graph.json, mapped.json, chunk_map.json and the index are
\* written
Persist ==
    /\ pc = "index"
    /\ done = Len(pdfs)
    /\ graph_json' = node_link_data(G)
    /\ mapped_json' = docmaps
    /\ chunk_map_json' = DictOfChunks(all_chunks_for_index)
    /\ index' = IndexOfChunks(all_chunks_for_index)
    /\ pc' = "indexed"
    /\ UNCHANGED <<pdfs, done, G, docmaps, all_chunks_for_index, entities, hits, scope,
                   scope_cids, k, ctx, s, money>>

(***************************************************************************)
(* ask and top_context of graph_rag.py                                     *)
(***************************************************************************)
Reverse(q) == [i \in 1..Len(q) |-> q[Len(q) + 1 - i]]

\* the hits of a ranking of IDs: at most limit=60 of them
HitsOf(ids) == [i \in 1..Min(Len(ids), SearchLimit) |-> [id |-> ids[i]]]

\* the rankings emb.search(question, limit=60) can return: the IDs of the
\* index in some order, here one order and its reverse
Rankings(order) == {HitsOf(order), HitsOf(Reverse(order))}

\* the call of top_context in ask, sc being the scope computed
AskWith(e, h, sc) ==
    /\ entities' = e
    /\ hits' = h
    /\ scope' = sc
    /\ scope_cids' = OrNone(sc)
    /\ k' = ContextSize
    /\ ctx' = top_context(h, chunk_map_json, OrNone(sc), ContextSize)

\* one call ask(question, entities), up to the call of the answerer, which
\* is not part of this program (a call reads the files and changes none, so
\* a second call starts as the first)
Ask ==
    /\ pc = "indexed"
    /\ \E e \in EntityArgs, h \in Rankings(SetToSeq(DOMAIN index)) :
          AskWith(e, h, ScopeOf(node_link_graph(graph_json), e))
    /\ pc' = "asked"
    /\ UNCHANGED <<pdfs, done, G, docmaps, all_chunks_for_index, graph_json, mapped_json,
                   chunk_map_json, index, s, money>>

(***************************************************************************)
(* ask on a crafted graph: three chunks, a document and two entities       *)
(***************************************************************************)
ChunkA == [prefix |-> Str_PCH, h |-> <<"A">>]
ChunkB == [prefix |-> Str_PCH, h |-> <<"B">>]
ChunkC == [prefix |-> Str_TBL, h |-> <<"C">>]
DocD   == [prefix |-> Str_DOC, h |-> <<"D">>]
EntX   == [prefix |-> Str_ENT, h |-> <<"X">>]
EntY   == [prefix |-> Str_ENT, h |-> <<"Y">>]

\* the edges a crafted graph can have
CraftedEdges ==
    {<<ChunkA, EntX>>, <<EntX, ChunkB>>, <<ChunkB, EntY>>, <<EntY, ChunkC>>,
     <<DocD, EntX>>, <<EntY, DocD>>, <<ChunkC, ChunkA>>}

\* the graph with these names for the two entities and these edges
CraftedGraph(name_x, name_y, edges) ==
    [node |-> (ChunkA :> [label |-> "Chunk", type |-> "paragraph"])
              @@ (ChunkB :> [label |-> "Chunk", type |-> "paragraph"])
              @@ (ChunkC :> [label |-> "Chunk", type |-> "table-row", page |-> 1])
              @@ (DocD :> [label |-> "Document"])
              @@ (EntX :> [label |-> "Entity", type |-> "Vendor", name |-> name_x])
              @@ (EntY :> [label |-> "Entity", type |-> "Vendor", name |-> name_y]),
     edge |-> [e \in edges |-> [rel |-> "MENTIONS"]]]

\* the fragment record of a crafted chunk
CraftedChunk(id, text, type) ==
    [id |-> id, text |-> text, docname |-> PdfNames[1], source |-> Str_PDF_DIR \o PdfNames[1],
     type |-> type]

CraftedChunks ==
    <<CraftedChunk(ChunkA, <<"a">>, "paragraph"),
      CraftedChunk(ChunkB, <<"b">>, "paragraph"),
      CraftedChunk(ChunkC, <<"c">>, "table-row")>>

\* graph.json, chunk_map.json and the index hold a crafted graph and its chunks
InitQuery ==
    /\ pc = "indexed"
    /\ pdfs = <<>>
    /\ done = 0
    /\ G = EmptyGraph
    /\ docmaps = <<>>
    /\ all_chunks_for_index = <<>>
    /\ graph_json \in {node_link_data(CraftedGraph(nx, ny, edges)) :
                          nx \in {N_ACME, N_Zed}, ny \in {N_ACME, N_acme, N_Zed},
                          edges \in SUBSET CraftedEdges}
    /\ mapped_json = NoFile
    /\ chunk_map_json = DictOfChunks(CraftedChunks)
    /\ index = IndexOfChunks(CraftedChunks)
    /\ NoCalls

(***************************************************************************)
(* top_context on a crafted fragment map and hit lists longer than k       *)
(***************************************************************************)
MaxHits == 16

\* the IDs the index can return
HitIds == [i \in 1..(MaxHits + 1) |-> [prefix |-> Str_PCH, h |-> Dec(i)]]

\* the index holds stale entries: the IDs of these positions are not in the
\* fragment map
Stale == {i \in 1..Len(HitIds) : i % 7 = 3}

\* the fragment map: two fragments can have the same text
HitChunks ==
    [i \in 1..Len(HitIds) |-> CraftedChunk(HitIds[i], <<"t">> \o Dec(i % 4), "paragraph")]

HitChunkMap == [cid \in {HitIds[i] : i \in 1..Len(HitIds) \ Stale} |->
                   LastOf(HitChunks, cid)]

\* the hit lists: at most MaxHits hits, in one of three orders
HitLists ==
    {HitsOf(SubSeq(order, 1, n)) :
        n \in 0..MaxHits,
        order \in {HitIds, Reverse(HitIds),
                   SubSeq(HitIds, 3, Len(HitIds)) \o SubSeq(HitIds, 1, 2)}}

\* the scope_cids arguments: None, or a set that "if scope_cids" takes as a scope
ScopeArgs ==
    {None,
     Some({HitIds[i] : i \in {j \in 1..Len(HitIds) : j % 2 = 0}}),
     Some({HitIds[2]}),
     Some({HitIds[3]})}

\* the k arguments
ContextSizes == {1, 2, ContextSize}

InitContext ==
    /\ pc = "top_context"
    /\ pdfs = <<>>
    /\ done = 0
    /\ G = EmptyGraph
    /\ docmaps = <<>>
    /\ all_chunks_for_index = <<>>
    /\ graph_json = NoFile
    /\ mapped_json = NoFile
    /\ chunk_map_json = HitChunkMap
    /\ index = NoFile
    /\ NoCalls

(***************************************************************************)
(* The arguments of parse_money                                            *)
(***************************************************************************)
MaxMoneyLen == 5

MoneyAlphabet == {"$", ",", " ", ".", "1", "2", "x"}

S_1234_56 == <<"$", "1", ",", "2", "3", "4", ".", "5", "6">>
S_12_345  == <<"1", "2", " ", "3", "4", "5">>
S_NoDigit == <<"n", "o", " ", "n", "u", "m", "b", "e", "r", "s", " ", "h", "e", "r", "e">>

\* the strings parse_money is called on (None is taken as "" by "s or ''")
MoneyStrings == SeqsUpTo(MoneyAlphabet, MaxMoneyLen) \cup {S_1234_56, S_12_345, S_NoDigit}

InitMoney ==
    /\ pc = "parse_money"
    /\ pdfs = <<>>
    /\ done = 0
    /\ G = EmptyGraph
    /\ docmaps = <<>>
    /\ all_chunks_for_index = <<>>
    /\ graph_json = NoFile
    /\ mapped_json = NoFile
    /\ chunk_map_json = NoFile
    /\ index = NoFile
    /\ entities = None
    /\ hits = <<>>
    /\ scope = {}
    /\ scope_cids = None
    /\ k = ContextSize
    /\ ctx = <<>>
    /\ s \in MoneyStrings
    /\ money = None

\* top_context(emb, chunk_map, question, scope_cids, k) called on its own
CallTopContext ==
    /\ pc = "top_context"
    /\ \E h \in HitLists, sc \in ScopeArgs, kk \in ContextSizes :
          /\ hits' = h
          /\ scope_cids' = sc
          /\ k' = kk
          /\ ctx' = top_context(h, chunk_map_json, sc, kk)
    /\ pc' = "returned"
    /\ UNCHANGED <<pdfs, done, G, docmaps, all_chunks_for_index, graph_json, mapped_json,
                   chunk_map_json, index, entities, scope, s, money>>

(***************************************************************************)
(* parse_money called on its own                                           *)
(***************************************************************************)
CallParseMoney ==
    /\ pc = "parse_money"
    /\ money' = parse_money(s)
    /\ pc' = "returned"
    /\ UNCHANGED <<pdfs, done, G, docmaps, all_chunks_for_index, graph_json, mapped_json,
                   chunk_map_json, index, entities, hits, scope, scope_cids, k, ctx, s>>

(***************************************************************************)
(* The specifications                                                      *)
(***************************************************************************)
Next == ProcessPdf \/ Crash \/ Persist \/ Ask

\* the pipeline on a corpus, then ask
Spec == Init /\ [][Next]_vars

\* the pipeline on one PDF with any tables, then ask
SpecTables == InitTables /\ [][Next]_vars

\* ask on the files of a crafted graph
SpecQuery == InitQuery /\ [][Ask]_vars

\* top_context on a crafted fragment map
SpecContext == InitContext /\ [][CallTopContext]_vars

\* parse_money on a string
SpecMoney == InitMoney /\ [][CallParseMoney]_vars

(***************************************************************************)
(* Properties.  What they read of the files is read from the JSON lists,   *)
(* not through the functions of graph_rag.py.                              *)
(***************************************************************************)
\* the nodes of graph.json with this label
NodesLabelled(data, label) ==
    {data.nodes[i] : i \in {j \in 1..Len(data.nodes) :
                               /\ "label" \in DOMAIN data.nodes[j]
                               /\ data.nodes[j].label = label}}

\* whether graph.json has a link from u to v
Linked(data, u, v) ==
    \E i \in 1..Len(data.links) : data.links[i].source = u /\ data.links[i].target = v

\* the Entity nodes of graph.json whose name is this one, whatever the case
EntitiesNamed(data, name) ==
    {n \in NodesLabelled(data, "Entity") : Lower(n.name) = Lower(name)}

\* the arguments of the last ask name entities
Scoped == entities # None /\ entities[1] # <<>>

\* the texts of the table-row fragments of chunk_map.json
TableRowTexts ==
    {chunk_map_json[c].text : c \in {x \in DOMAIN chunk_map_json :
                                        chunk_map_json[x].type = "table-row"}}

\* the nodes of the corpus graph with this label
GNodes(label) == {n \in DOMAIN G.node : HasLabel(G, n, label)}

\* the sources of the edges of this relation into node n of the corpus graph
Sources(n, rel) == {e[1] : e \in {x \in DOMAIN G.edge : x[2] = n /\ G.edge[x].rel = rel}}

\* the (source, target, relation) triples of a graph
Triples(g) == {<<e[1], e[2], g.edge[e].rel>> : e \in DOMAIN g.edge}

\* the graph fragment of the i-th PDF of the directory
Fragment(i) == build_graph_and_maps(pdfs[i]).g

\* C1: when ask is called with a non-empty entity list of which no name
\* matches an Entity node of the corpus graph, the context handed to the
\* answerer is empty.
C1_UnknownEntityGivesNothing ==
    (/\ pc = "asked"
     /\ Scoped
     /\ \A i \in 1..Len(entities[1]) : EntitiesNamed(graph_json, entities[1][i]) = {})
    => ctx = <<>>

\* an ask for an entity no node has, whose context holds fragments all the same
C1_Fallback ==
    /\ pc = "asked"
    /\ Scoped
    /\ \A i \in 1..Len(entities[1]) : EntitiesNamed(graph_json, entities[1][i]) = {}
    /\ scope = {}
    /\ ctx # <<>>

\* whether the i-th document processed has a vendor, and the j-th has the
\* same but for the case of letters
SameVendor(i, j) ==
    /\ docmaps[i].vendor # None
    /\ docmaps[j].vendor # None
    /\ docmaps[i].vendor[1] # <<>>
    /\ Lower(docmaps[i].vendor[1]) = Lower(docmaps[j].vendor[1])

\* the Entity nodes of the corpus graph with the vendor name of the i-th
\* document processed, whatever the case
VendorNodes(i) ==
    {n \in GNodes("Entity") : Lower(NameOf(G, n)) = Lower(docmaps[i].vendor[1])}

\* the paragraph chunks of the corpus graph of the i-th document processed
ParagraphsOf(i) ==
    {n \in GNodes("Chunk") : G.node[n].type = "paragraph" /\ G.node[n].docname = docmaps[i].docname}

\* C2: two documents whose sniffed vendor names are equal modulo letter case
\* give exactly one Entity node in the corpus graph, and the paragraph
\* chunks of both have a MENTIONS edge to it.
C2_OneEntityPerVendor ==
    \A i, j \in 1..Len(docmaps) :
        (i < j /\ SameVendor(i, j)) =>
            /\ Cardinality(VendorNodes(i)) = 1
            /\ \A c \in ParagraphsOf(i) \cup ParagraphsOf(j) :
                  \A n \in VendorNodes(i) :
                      <<c, n>> \in DOMAIN G.edge /\ G.edge[<<c, n>>].rel = "MENTIONS"

\* two documents processed whose vendors differ in case only, and two
\* Entity nodes for them
C2_TwoEntities ==
    /\ Len(docmaps) = 2
    /\ SameVendor(1, 2)
    /\ Cardinality(VendorNodes(1)) = 2

\* C3: each LineItem node of the corpus graph has at most one incoming
\* HAS_LINEITEM edge.
C3_OneRowPerLineItem ==
    \A n \in GNodes("LineItem") : Cardinality(Sources(n, "HAS_LINEITEM")) <= 1

\* a LineItem node that two table rows of one page point to
C3_SharedLineItem ==
    \E n \in GNodes("LineItem") :
        /\ Cardinality(Sources(n, "HAS_LINEITEM")) = 2
        /\ \A c \in Sources(n, "HAS_LINEITEM") : G.node[c].page = G.node[n].page

\* whether pdfplumber raises for this PDF: on opening it or on a page
TablesRaise(pdf) ==
    \/ pdf.plumber.open_fails
    \/ \E p \in 1..Len(pdf.plumber.pages) : pdf.plumber.pages[p].raises

\* the table-row fragments among these records that are of this file
TableRowsOf(records, name) ==
    {r \in records : r.type = "table-row" /\ r.docname = name}

\* the values of a dict or list
Range(f) == {f[x] : x \in DOMAIN f}

\* C4: a document whose table extraction raises at any point contributes
\* no table-row fragment to the graph, the fragment map and the index, and
\* the run goes on.
C4_FailedTablesGiveNoRows ==
    \A i \in 1..done :
        TablesRaise(pdfs[i]) =>
            /\ TableRowsOf(Range(all_chunks_for_index), pdfs[i].name) = {}
            /\ {n \in GNodes("Chunk") : G.node[n].type = "table-row"
                                        /\ G.node[n].docname = pdfs[i].name} = {}
            /\ TableRowsOf(Range(chunk_map_json), pdfs[i].name) = {}
            /\ TableRowsOf(Range(index), pdfs[i].name) = {}

\* a document whose second page raises, and a table row of its first page
\* in the index
C4_RowsBeforeTheError ==
    /\ pc = "indexed"
    /\ Len(pdfs) = 1
    /\ ~pdfs[1].plumber.open_fails
    /\ Len(pdfs[1].plumber.pages) = 2
    /\ pdfs[1].plumber.pages[2].raises
    /\ TableRowsOf(Range(index), pdfs[1].name) # {}

\* whether the characters of t from position p on are groups of a
\* separator and three digits, then possibly a dot and two digits
RECURSIVE IsGroups(_, _)
IsGroups(t, p) ==
    \/ p = Len(t) + 1
    \/ /\ p + 2 = Len(t)
       /\ t[p] = "."
       /\ IsDigit(t[p + 1]) /\ IsDigit(t[p + 2])
    \/ /\ p + 3 <= Len(t)
       /\ t[p] \in {",", " "}
       /\ IsDigit(t[p + 1]) /\ IsDigit(t[p + 2]) /\ IsDigit(t[p + 3])
       /\ IsGroups(t, p + 4)

\* whether t is an amount: one to three digits, then groups
IsPlainAmount(t) == \E n \in 1..3 : DigitRun(t, 1, 3) = n /\ IsGroups(t, n + 1)

\* whether t is an amount with its optional currency symbol
IsAmount(t) ==
    IF t # <<>> /\ t[1] = "$" THEN IsPlainAmount(Tail(t)) ELSE IsPlainAmount(t)

\* the digits of t
DigitsOf(t) == Filter(t, {DigitChars[d] : d \in DOMAIN DigitChars})

\* the number of hundredths that the amount t denotes
AmountValue(t) ==
    IF IndexOf(t, ".") = 0 THEN 100 * DecVal(DigitsOf(t)) ELSE DecVal(DigitsOf(t))

\* C5: parse_money returns the amount that all the digits of the string
\* denote, and None for a string with no digit.
C5_FullAmount ==
    pc = "returned" =>
        /\ IsAmount(s) => money = Some(AmountValue(s))
        /\ DigitsOf(s) = <<>> => money = None

\* parse_money returned 123.0 for "$1,234.56"
C5_Prefix ==
    /\ pc = "returned"
    /\ s = S_1234_56
    /\ money = Some(12300)

\* the chunks of graph.json with a link to or from an Entity node of this name
ConnectedChunks(data, name) ==
    {c.id : c \in {x \in NodesLabelled(data, "Chunk") :
                      \E n \in EntitiesNamed(data, name) :
                          Linked(data, x.id, n.id) \/ Linked(data, n.id, x.id)}}

\* C6: cids_for_entity gives exactly the Chunk nodes with an edge to or from
\* an Entity node of that name, case-insensitively, and the scope of ask is
\* the union of these sets over the names given.
C6_ScopeIsConnectedChunks ==
    pc = "asked" =>
        scope = (IF entities = None THEN {}
                 ELSE UNION {ConnectedChunks(graph_json, entities[1][i]) :
                                i \in 1..Len(entities[1])})

\* an ask for two names on a graph where chunk A has an edge to the entity
\* of the one, the entity of the other has an edge to chunk B, and chunk C
\* has an edge from a document and to a chunk only
C6_TwoNames ==
    /\ pc = "asked"
    /\ entities = Some(<<N_acme, N_Zed>>)
    /\ EntitiesNamed(graph_json, N_acme) # {}
    /\ EntitiesNamed(graph_json, N_Zed) # {}
    /\ ConnectedChunks(graph_json, N_acme) = {ChunkA}
    /\ ConnectedChunks(graph_json, N_Zed) = {ChunkB}
    /\ Linked(graph_json, ChunkC, ChunkA)
    /\ scope = {ChunkA, ChunkB}

\* the positions of the hits that are in the scope, if there is one, and in
\* the fragment map
Eligible ==
    {i \in 1..Len(hits) :
        /\ scope_cids = None \/ hits[i].id \in scope_cids[1]
        /\ hits[i].id \in DOMAIN chunk_map_json}

\* the j-th of these positions, in rank order
Ranked(j) == CHOOSE p \in Eligible : Cardinality({q \in Eligible : q <= p}) = j

\* C7: top_context returns the texts of the first k hits, in rank order, of
\* those that are in the scope (all when there is none) and in the fragment
\* map, and never more than k.
C7_FirstKInRankOrder ==
    pc = "returned" =>
        /\ Len(ctx) = Min(k, Cardinality(Eligible))
        /\ \A j \in 1..Len(ctx) : ctx[j] = chunk_map_json[hits[Ranked(j)].id].text

\* a call with the default k, more than k hits on offer, and a stale hit
\* skipped before the last one taken
C7_CapReached ==
    /\ pc = "returned"
    /\ k = ContextSize
    /\ Cardinality(Eligible) > k
    /\ Len(ctx) = k
    /\ \E i \in 1..Ranked(k) : hits[i].id \notin DOMAIN chunk_map_json

\* whether g has the union of the node IDs of the fragments and the union of
\* their triples, merging a fragment again changes neither, and merging in
\* another order gives them too
IsUnionOf(g, fragments) ==
    /\ DOMAIN g.node = UNION {DOMAIN fragments[i].node : i \in DOMAIN fragments}
    /\ Triples(g) = UNION {Triples(fragments[i]) : i \in DOMAIN fragments}
    /\ \A i \in DOMAIN fragments :
          /\ DOMAIN compose(g, fragments[i]).node = DOMAIN g.node
          /\ Triples(compose(g, fragments[i])) = Triples(g)
    /\ \A i, j \in DOMAIN fragments :
          i < j =>
             /\ DOMAIN compose(fragments[j], fragments[i]).node
                   = DOMAIN compose(fragments[i], fragments[j]).node
             /\ Triples(compose(fragments[j], fragments[i]))
                   = Triples(compose(fragments[i], fragments[j]))

\* C8: the corpus graph has the union of the node IDs of the fragments
\* merged and the union of their (source, target, relation) triples; merging
\* a fragment again changes neither, nor does the order of merging.
C8_CorpusGraphIsUnion == pc = "index" => IsUnionOf(G, [i \in 1..done |-> Fragment(i)])

\* two documents merged that share their Entity node and have a Document
\* node each
C8_SharedEntity ==
    /\ pc = "index"
    /\ done = 2
    /\ Cardinality(GNodes("Document")) = 2
    /\ Cardinality(GNodes("Entity")) = 1
    /\ \A d \in GNodes("Document") : \A n \in GNodes("Entity") : <<d, n>> \in DOMAIN G.edge

\* C9: every Chunk node of the corpus graph has exactly one incoming
\* HAS_CHUNK edge, from the Document node of the document it was extracted
\* from.
C9_OneOwningDocument ==
    \A c \in GNodes("Chunk") :
        /\ Cardinality(Sources(c, "HAS_CHUNK")) = 1
        /\ \A d \in Sources(c, "HAS_CHUNK") :
              HasLabel(G, d, "Document") /\ G.node[d].docname = G.node[c].docname

\* a table-row chunk with HAS_CHUNK edges from two Document nodes
C9_TwoOwners ==
    \E c \in GNodes("Chunk") :
        /\ G.node[c].type = "table-row"
        /\ Cardinality(Sources(c, "HAS_CHUNK")) = 2
        /\ \A d \in Sources(c, "HAS_CHUNK") : HasLabel(G, d, "Document")

\* the IDs of the fragments of chunk_map.json of this type
ChunksOfType(type) == {c \in DOMAIN chunk_map_json : chunk_map_json[c].type = type}

\* the paragraph fragments of the documents whose vendor is one of the names
\* of the last ask, whatever the case
ParagraphsOfVendors ==
    {c \in ChunksOfType("paragraph") :
        \E d \in 1..Len(docmaps) :
            /\ docmaps[d].docname = chunk_map_json[c].docname
            /\ docmaps[d].vendor # None
            /\ docmaps[d].vendor[1] # <<>>
            /\ \E i \in 1..Len(entities[1]) :
                  Lower(entities[1][i]) = Lower(docmaps[d].vendor[1])}

\* C10: the scope that ask computes for vendor names holds every paragraph
\* chunk of the documents with these vendors and no table-row chunk, and
\* an ask with entities puts no table-row fragment into the context.
C10_ScopedAskHasNoTableRows ==
    (pc = "asked" /\ Scoped) =>
        /\ ParagraphsOfVendors \subseteq scope
        /\ scope \cap ChunksOfType("table-row") = {}
        /\ \A j \in 1..Len(ctx) : ctx[j] \notin TableRowTexts

\* the first part of C10 alone: what the scope holds
C10_ScopeIsParagraphs ==
    (pc = "asked" /\ Scoped) =>
        /\ ParagraphsOfVendors \subseteq scope
        /\ scope \cap ChunksOfType("table-row") = {}

\* an ask with a name no Entity node has, on a corpus with a table row: the
\* scope is empty and the context holds the row
C10_TableRowInContext ==
    /\ pc = "asked"
    /\ Scoped
    /\ scope = {}
    /\ \E j \in 1..Len(ctx) : ctx[j] \in TableRowTexts

====
